---- MODULE Spec2Model ----
(***************************************************************************)
(* Model of index.js, the iRacing live telemetry display: the module state *)
(* (isConnected, currentTelemetry, currentSessionInfo, dotCount), the four *)
(* SDK event handlers and render(), the function the 500 ms timer calls.   *)
(*                                                                         *)
(* JavaScript values are records [t, n, s]: t is the type tag ("null" for  *)
(* null and undefined, "num", "str", "bool"), n the number (or 0/1 of a    *)
(* boolean) and s the string.  Fractions are fixed point: lap fractions    *)
(* and seconds are counted in units of 1/10000 (Unit per 1.0).             *)
(* Fields that only feed text layout (UserName, CarNumber, last/best lap,  *)
(* SessionType, Lap, SessionTimeRemain) are left out of the records.       *)
(***************************************************************************)
EXTENDS Integers, Sequences, FiniteSets, TLC

VARIABLES
    isConnected,         \* let isConnected
    currentTelemetry,    \* let currentTelemetry  (NullVal or a snapshot)
    currentSessionInfo,  \* let currentSessionInfo (NullVal or a snapshot)
    dotCount,            \* let dotCount, kept modulo DotCycle
    tel,                 \* render's local tel, as read by the last tick
    si,                  \* render's local si, as read by the last tick
    screen,              \* what the last tick drew: none/waiting/nocars/leaderboard
    cars,                \* render's local cars after sort, class walk and deltas
    totalLaps,           \* header value of "Lap: x / totalLaps"
    gapCells,            \* the Gap column, one formatGap result per table row
    sinceDisconnected    \* history: what the events delivered since the last
                         \* Disconnected event (or since start), and whether
                         \* a Disconnected event has occurred at all

vars == <<isConnected, currentTelemetry, currentSessionInfo, dotCount,
          tel, si, screen, cars, totalLaps, gapCells, sinceDisconnected>>

-----------------------------------------------------------------------------
(* JavaScript values *)

NullVal == [t |-> "null", n |-> 0, s |-> ""]
Num(k) == [t |-> "num", n |-> k, s |-> ""]
Str(x) == [t |-> "str", n |-> 0, s |-> x]
Bool(b) == [t |-> "bool", n |-> (IF b THEN 1 ELSE 0), s |-> ""]

\* v == null  (true of null and undefined)
IsNullish(v) == v.t = "null"

\* a ?? b
Coalesce(a, b) == IF IsNullish(a) THEN b ELSE a

\* arr[idx] of a JavaScript array held as a sequence (index 0 is element 1);
\* an index past the end reads undefined
At(arr, idx) == IF idx >= 0 /\ idx < Len(arr) THEN arr[idx + 1] ELSE NullVal

\* ToBoolean(v)
Truthy(v) ==
    CASE v.t = "null" -> FALSE
      [] v.t = "num"  -> v.n # 0
      [] v.t = "str"  -> v.s # ""
      [] v.t = "bool" -> v.n = 1

\* a !== b
StrictNotEqual(a, b) == ~(a.t = b.t /\ a.n = b.n /\ a.s = b.s)

\* ToNumber of the strings the inputs use; -1 stands for a string that is not
\* the number 0, 1, 25 or 32767
StrToNum(x) ==
    CASE x = "0" -> 0
      [] x = "1" -> 1
      [] x = "25" -> 25
      [] x = "1500" -> 1500
      [] x = "32767" -> 32767
      [] OTHER -> -1

\* v === 1: the strict comparison, which a string or boolean indicator fails
LooseEqOne_Strict(v) == v.t = "num" /\ v.n = 1

\* v == 1  (loose equality with the number 1)
LooseEqOne(v) ==
    CASE v.t = "null" -> FALSE
      [] v.t = "num"  -> v.n = 1
      [] v.t = "str"  -> StrToNum(v.s) = 1
      [] v.t = "bool" -> v.n = 1

\* parseInt(v, 10) of a number or a digit string
ParseInt(v) == IF v.t = "str" THEN StrToNum(v.s) ELSE v.n

\* Math.round(num / den) for den > 0: the nearest integer, halves going up
MathRound(num, den) == (2 * num + den) \div (2 * den)

-----------------------------------------------------------------------------
(* Units and program constants *)

Unit == 10000              \* fixed-point units per 1.0 (lap fraction, second)
DotCycle == 3              \* dotCount % 3
StalledBelow == 10         \* distPct < 0.001, in units
LappedFrom == 36000000     \* gapSeconds >= 3600, in units
MinuteUnits == 600000      \* gapSeconds >= 60, in units
MilliUnits == 10           \* one millisecond, in units (toFixed(3))
EloGain == 200             \* k = 200 / n
Micro == 1000000           \* fixed-point scale of the win probabilities

-----------------------------------------------------------------------------
(* calcIRatingDeltas *)

\* 1 / (1 + Math.exp(d / 1500)) in millionths, for the rating differences d
\* the bounded ratings produce
WinProbability(d) ==
    CASE d = 0     -> 500000
      [] d = 600   -> 401312
      [] d = -600  -> 598688
      [] d = 900   -> 354344
      [] d = -900  -> 645656
      [] d = 1500  -> 268941
      [] d = -1500 -> 731059

\* c.pos > 0 && c.iRating > 0
IsClassified(c) == c.pos > 0 /\ c.iRating > 0

RECURSIVE SumExpectedOver(_, _, _, _)
\* sumExpected of the car at index i over the opponents in S, in millionths
SumExpectedOver(cs, i, S, acc) ==
    IF S = {} THEN acc
    ELSE LET j == CHOOSE k \in S : TRUE
         IN SumExpectedOver(cs, i, S \ {j},
                acc + WinProbability(cs[j].iRating - cs[i].iRating))

\* the inner loop's sumExpected for the car at index i, in millionths
SumExpected(cs, classified, i) == SumExpectedOver(cs, i, classified \ {i}, 0)

\* sumActual counting an opponent on the same position as beaten (<=)
SumActual_TiesWin(cs, classified, i) ==
    Cardinality({j \in classified \ {i} : cs[i].pos <= cs[j].pos})

\* the inner loop's sumActual for the car at index i
SumActual(cs, classified, i) ==
    Cardinality({j \in classified \ {i} : cs[i].pos < cs[j].pos})

\* Math.round((sumActual - sumExpected) * k) with k = 200 / n
RatingDelta(cs, classified, i) ==
    LET n == Cardinality(classified)
        diff == SumActual(cs, classified, i) * Micro - SumExpected(cs, classified, i)
    IN MathRound(diff * EloGain, n * Micro)

\* calcIRatingDeltas without the n < 2 return
calcIRatingDeltas_NoGuard(cs) ==
    LET classified == {i \in 1..Len(cs) : IsClassified(cs[i])}
    IN [i \in 1..Len(cs) |->
           IF i \in classified
           THEN [cs[i] EXCEPT !.iRatingDelta = Num(RatingDelta(cs, classified, i))]
           ELSE cs[i]]

\* calcIRatingDeltas(cars): the array after the call
calcIRatingDeltas(cs) ==
    LET classified == {i \in 1..Len(cs) : IsClassified(cs[i])}
    IN IF Cardinality(classified) < 2 THEN cs
       ELSE [i \in 1..Len(cs) |->
               IF i \in classified
               THEN [cs[i] EXCEPT !.iRatingDelta = Num(RatingDelta(cs, classified, i))]
               ELSE cs[i]]

-----------------------------------------------------------------------------
(* formatGap *)

\* x.toFixed(3), as a count of milliseconds
ToFixed3(units) == MathRound(units, MilliUnits)

\* formatGap taking only a gap above 3600 for a lapped car (> for >=)
formatGap_StrictHour(gapSeconds, position) ==
    IF position = 1 THEN [kind |-> "leader", laps |-> 0, min |-> 0, ms |-> 0]
    ELSE IF IsNullish(gapSeconds) \/ gapSeconds.n < 0
    THEN [kind |-> "dashes", laps |-> 0, min |-> 0, ms |-> 0]
    ELSE IF gapSeconds.n > LappedFrom
    THEN [kind |-> "lapped", laps |-> MathRound(gapSeconds.n, LappedFrom),
          min |-> 0, ms |-> 0]
    ELSE IF gapSeconds.n >= MinuteUnits
    THEN [kind |-> "minutes", laps |-> 0,
          min |-> gapSeconds.n \div MinuteUnits,
          ms |-> ToFixed3(gapSeconds.n % MinuteUnits)]
    ELSE [kind |-> "seconds", laps |-> 0, min |-> 0, ms |-> ToFixed3(gapSeconds.n)]

\* formatGap(gapSeconds, position): "Leader", "--", "+NL", "+M:SS.mmm" or
\* "+S.mmms", as [kind, laps, min, ms]
formatGap(gapSeconds, position) ==
    IF position = 1 THEN [kind |-> "leader", laps |-> 0, min |-> 0, ms |-> 0]
    ELSE IF IsNullish(gapSeconds) \/ gapSeconds.n < 0
    THEN [kind |-> "dashes", laps |-> 0, min |-> 0, ms |-> 0]
    ELSE IF gapSeconds.n >= LappedFrom
    THEN [kind |-> "lapped", laps |-> MathRound(gapSeconds.n, LappedFrom),
          min |-> 0, ms |-> 0]
    ELSE IF gapSeconds.n >= MinuteUnits
    THEN [kind |-> "minutes", laps |-> 0,
          min |-> gapSeconds.n \div MinuteUnits,
          ms |-> ToFixed3(gapSeconds.n % MinuteUnits)]
    ELSE [kind |-> "seconds", laps |-> 0, min |-> 0, ms |-> ToFixed3(gapSeconds.n)]

-----------------------------------------------------------------------------
(* render: session metadata *)

\* sessions[sessionNum] ?? sessions[0] ?? {}, reduced to its SessionLaps
ActiveSessionLaps(t, info) ==
    LET sessionNum == Coalesce(t.SessionNum, Num(0)).n
        sessions == info.Sessions
        pick(k) == IF k >= 0 /\ k < Len(sessions) THEN k + 1 ELSE 0
        chosen == IF pick(sessionNum) # 0 THEN pick(sessionNum) ELSE pick(0)
    IN IF chosen = 0 THEN NullVal ELSE sessions[chosen].SessionLaps

\* the infinity sign the header shows for "no lap limit"
Unlimited == Str("infinity")

\* (session.SessionLaps && session.SessionLaps !== '32767') ? session.SessionLaps : Unlimited
TotalLaps(sessionLaps) ==
    IF Truthy(sessionLaps) /\ StrictNotEqual(sessionLaps, Str("32767"))
    THEN sessionLaps
    ELSE Unlimited

\* the flag condition the header (lines 303-311) shows for a telemetry
\* snapshot: render never reads SessionFlags and prints no banner
FlagBanner(t) == "none"

-----------------------------------------------------------------------------
(* render: driver lookup and per-car rows *)

\* the keys of driverMap: every CarIdx some driver carries
DriverKeys(drivers) ==
    {drivers[i].CarIdx.n : i \in {j \in 1..Len(drivers) : ~IsNullish(drivers[j].CarIdx)}}

\* driverMap[idx]: the last driver of the array with that CarIdx
DriverMap(drivers, idx) ==
    LET at == {i \in 1..Len(drivers) :
                 ~IsNullish(drivers[i].CarIdx) /\ drivers[i].CarIdx.n = idx}
        last == CHOOSE i \in at : \A j \in at : j <= i
    IN drivers[last]

\* the object pushed onto cars for slot idx
CarRow(t, driver, idx) ==
    LET distPct == At(t.CarIdxLapDistPct, idx)
        lap == Coalesce(At(t.CarIdxLap, idx), Num(0)).n
    IN [idx |-> idx,
        pos |-> Coalesce(At(t.CarIdxPosition, idx), Num(0)).n,
        classPos |-> Coalesce(At(t.CarIdxClassPosition, idx), Num(0)).n,
        carClass |-> Coalesce(driver.CarClassShortName, Str("")).s,
        laps |-> lap,
        distPct |-> distPct.n,
        gap |-> At(t.CarIdxF2Time, idx),
        stalled |-> (distPct.n < StalledBelow /\ lap > 0),
        isPlayer |-> (Coalesce(t.PlayerCarIdx, Num(-1)).n = idx),
        iRating |-> ParseInt(Coalesce(driver.IRating, Num(0))),
        iRatingDelta |-> NullVal]

RECURSIVE BuildCars_PerEntry(_, _, _, _, _)
\* the loop run over the drivers array itself, one row per roster entry
\* (seenIdx holds the entries already visited)
BuildCars_PerEntry(t, drivers, keys, seenIdx, acc) ==
    IF seenIdx = 1..Len(drivers) THEN acc
    ELSE LET i == CHOOSE k \in 1..Len(drivers) \ seenIdx :
                      \A m \in 1..Len(drivers) \ seenIdx : k <= m
             driver == drivers[i]
             idx == driver.CarIdx.n
         IN IF \/ IsNullish(driver.CarIdx)
               \/ LooseEqOne(driver.CarIsPaceCar)
               \/ IsNullish(At(t.CarIdxLapDistPct, idx))
            THEN BuildCars_PerEntry(t, drivers, keys, seenIdx \cup {i}, acc)
            ELSE BuildCars_PerEntry(t, drivers, keys, seenIdx \cup {i},
                                    Append(acc, CarRow(t, driver, idx)))

RECURSIVE BuildCars(_, _, _, _, _)
\* the loop over Object.entries(driverMap): integer keys come in ascending
\* order, whatever order the drivers array lists them in
BuildCars(t, drivers, keys, seenIdx, acc) ==
    IF keys = {} THEN acc
    ELSE LET idx == CHOOSE k \in keys : \A m \in keys : k <= m
             rest == keys \ {idx}
             driver == DriverMap(drivers, idx)
         IN IF idx \in seenIdx THEN BuildCars(t, drivers, rest, seenIdx, acc)
            ELSE IF LooseEqOne(driver.CarIsPaceCar)
            THEN BuildCars(t, drivers, rest, seenIdx \cup {idx}, acc)
            ELSE IF IsNullish(At(t.CarIdxLapDistPct, idx))
            THEN BuildCars(t, drivers, rest, seenIdx \cup {idx}, acc)
            ELSE BuildCars(t, drivers, rest, seenIdx \cup {idx},
                           Append(acc, CarRow(t, driver, idx)))

-----------------------------------------------------------------------------
(* render: sort and class positions *)

\* the progress metric without the lap fraction
Progress_LapsOnly(c) == c.laps * Unit

\* (a.laps ?? 0) + (a.distPct ?? 0), in units
Progress(c) == c.laps * Unit + c.distPct

\* the comparator without its two "one car has a position" returns
Compare_NoPositionedFirst(a, b) ==
    IF a.pos > 0 /\ b.pos > 0 THEN a.pos - b.pos
    ELSE (b.laps * Unit + b.distPct) - (a.laps * Unit + a.distPct)

\* the comparator handed to cars.sort
Compare(a, b) ==
    IF a.pos > 0 /\ b.pos > 0 THEN a.pos - b.pos
    ELSE IF a.pos > 0 THEN -1
    ELSE IF b.pos > 0 THEN 1
    ELSE Progress(b) - Progress(a)

RECURSIVE InsertSorted_Unstable(_, _)
\* an insertion step that also moves x in front of the elements it ties with
InsertSorted_Unstable(sorted, x) ==
    IF sorted = <<>> THEN <<x>>
    ELSE LET last == sorted[Len(sorted)]
         IN IF Compare(last, x) >= 0
            THEN Append(InsertSorted_Unstable(SubSeq(sorted, 1, Len(sorted) - 1), x), last)
            ELSE Append(sorted, x)

RECURSIVE InsertSorted(_, _)
\* one insertion step of the stable sort: x goes behind every element that
\* does not compare greater than it
InsertSorted(sorted, x) ==
    IF sorted = <<>> THEN <<x>>
    ELSE LET last == sorted[Len(sorted)]
         IN IF Compare(last, x) > 0
            THEN Append(InsertSorted(SubSeq(sorted, 1, Len(sorted) - 1), x), last)
            ELSE Append(sorted, x)

RECURSIVE SortFrom(_, _, _)
SortFrom(cs, k, acc) ==
    IF k > Len(cs) THEN acc ELSE SortFrom(cs, k + 1, InsertSorted(acc, cs[k]))

\* cars.sort(comparator): Array.prototype.sort is stable
SortCars(cs) == SortFrom(cs, 1, <<>>)

\* car.carClass || '__default__'
CounterKey(c) == IF c.carClass = "" THEN "__default__" ELSE c.carClass

\* the classCounters walk: each car gets the count of its key so far
AssignClassPositions(cs) ==
    [i \in 1..Len(cs) |->
        [cs[i] EXCEPT !.classPos =
            Cardinality({j \in 1..i : CounterKey(cs[j]) = CounterKey(cs[i])})]]

\* the Gap column of the table
GapColumn(cs) == [i \in 1..Len(cs) |-> formatGap(cs[i].gap, cs[i].pos)]

\* cars as render holds it when it draws: built, sorted, class positions
\* recomputed, deltas estimated
Pipeline(t, info) ==
    calcIRatingDeltas(
        AssignClassPositions(
            SortCars(BuildCars(t, info.Drivers, DriverKeys(info.Drivers), {}, <<>>))))

-----------------------------------------------------------------------------
(* Bounds and the snapshots the SDK delivers *)

MaxRoster == 3       \* longest drivers array of the merge inputs
MaxCars == 3         \* cars of the rank, class and rating inputs
MaxSessions == 2     \* longest Sessions array

Driver(idx, pace, cls, rating) ==
    [CarIdx |-> idx, CarIsPaceCar |-> pace, CarClassShortName |-> cls, IRating |-> rating]

SessionInfoOf(drivers, sessions) == [Drivers |-> drivers, Sessions |-> sessions]

TelemetryOf(pos, classPos, lap, dist, gap, player, sessionNum, flags) ==
    [CarIdxPosition |-> pos, CarIdxClassPosition |-> classPos, CarIdxLap |-> lap,
     CarIdxLapDistPct |-> dist, CarIdxF2Time |-> gap, PlayerCarIdx |-> player,
     SessionNum |-> sessionNum, SessionFlags |-> flags]

\* the flag conditions a SessionFlags bitmask can hold, one name per bit group
FlagBits == {"finish", "red", "caution", "oneLapToGreen", "white", "green"}

HalfLap == Num(5000)
OneSession == <<[SessionLaps |-> Num(25)]>>
Column(n, v) == [i \in 1..n |-> v]

\* drivers array listing slots 0..n-1, ascending or descending
Roster(n, descending, pace, cls, rating) ==
    [i \in 1..n |->
        LET k == IF descending THEN n - i ELSE i - 1
        IN Driver(Num(k), pace[k + 1], cls[k + 1], rating[k + 1])]

\* the per-entry choices of the merge inputs: CarIdx missing or repeated,
\* every encoding of the pace-car indicator
MergeDrivers ==
    {Driver(idx, pace, Str("GTP"), Num(1500)) :
        idx \in {NullVal, Num(0), Num(1)},
        pace \in {Num(0), Num(1), Str("1"), Bool(TRUE)}}

\* the class label that marks the i-th entry of a merge roster, so that a
\* record tells which entry supplied it
RosterLabel(i) == Str(<<"GTP", "LMP2", "GT3", "GT4", "TCR", "MX5">>[i])

\* the gap values of the gap inputs, in units: absent, -1, 0, 45.2, 59.9996,
\* 60, 75.5, 119.9996, 3599.9996, 3600, 3650, 5400 and 9000 seconds
GapValues ==
    {NullVal, Num(-10000), Num(0), Num(452000), Num(599996), Num(600000),
     Num(755000), Num(1199996), Num(35999996), Num(36000000), Num(36500000),
     Num(54000000), Num(90000000)}

\* the SessionLaps values of the header inputs
LapLimits ==
    {NullVal, Num(0), Num(25), Str("25"), Num(32767), Str("32767"), Str("unlimited")}

\* the snapshots the event handlers receive in the interleaving model
EventSessionInfos ==
    {SessionInfoOf(<<>>, <<>>),
     SessionInfoOf(<<Driver(Num(0), Num(1), NullVal, NullVal),
                     Driver(Num(1), NullVal, Str("GTP"), Num(2100)),
                     Driver(Num(2), Str("0"), Str("GTP"), Num(1500))>>,
                   <<[SessionLaps |-> Str("32767")]>>),
     SessionInfoOf(<<Driver(Num(1), NullVal, Str("LMP2"), Num(1500)),
                     Driver(Num(0), NullVal, Str("GTP"), Num(1500))>>,
                   <<[SessionLaps |-> Num(25)]>>)}

EventTelemetries ==
    {TelemetryOf(<<Num(0), Num(1), Num(2)>>, <<>>, <<Num(0), Num(4), Num(4)>>,
                 <<Num(0), Num(7000), HalfLap>>, <<Num(0), Num(0), Num(18470)>>,
                 Num(1), Num(0), {"green"}),
     TelemetryOf(<<Num(0), Num(0)>>, <<>>, <<Num(1), Num(1)>>,
                 <<Num(2000), HalfLap>>, <<>>, Num(0), Num(0), {}),
     TelemetryOf(<<>>, <<>>, <<>>, <<>>, <<>>, NullVal, NullVal, {"red", "green"})}

-----------------------------------------------------------------------------
(* State machine *)

TypeOK ==
    /\ isConnected \in BOOLEAN
    /\ dotCount \in 0..(DotCycle - 1)
    /\ screen \in {"none", "waiting", "nocars", "leaderboard"}
    /\ Len(gapCells) \in {0, Len(cars)}

\* the history right after a Disconnected event (or at start): nothing
\* delivered yet
NothingSince(after) ==
    [connected |-> FALSE, telemetry |-> NullVal, sessionInfo |-> NullVal,
     afterDisconnect |-> after]

\* the module's state after its top-level declarations (lines 30-33)
Init ==
    /\ isConnected = FALSE
    /\ currentTelemetry = NullVal
    /\ currentSessionInfo = NullVal
    /\ dotCount = 0
    /\ tel = NullVal
    /\ si = NullVal
    /\ screen = "none"
    /\ cars = <<>>
    /\ totalLaps = NullVal
    /\ gapCells = <<>>
    /\ sinceDisconnected = NothingSince(FALSE)

\* iracing.on('Connected')
Connected ==
    /\ isConnected' = TRUE
    /\ sinceDisconnected' = [sinceDisconnected EXCEPT !.connected = TRUE]
    /\ UNCHANGED <<currentTelemetry, currentSessionInfo, dotCount,
                   tel, si, screen, cars, totalLaps, gapCells>>

\* a Disconnected handler that only clears the flag and keeps the snapshots
Disconnected_KeepsSnapshots ==
    /\ isConnected' = FALSE
    /\ sinceDisconnected' = NothingSince(TRUE)
    /\ UNCHANGED <<currentTelemetry, currentSessionInfo,
                   dotCount, tel, si, screen, cars, totalLaps, gapCells>>

\* iracing.on('Disconnected')
Disconnected ==
    /\ isConnected' = FALSE
    /\ currentTelemetry' = NullVal
    /\ currentSessionInfo' = NullVal
    /\ sinceDisconnected' = NothingSince(TRUE)
    /\ UNCHANGED <<dotCount, tel, si, screen, cars, totalLaps, gapCells>>

\* iracing.on('SessionInfo', si => ...)
SessionInfo ==
    \E info \in EventSessionInfos :
        /\ currentSessionInfo' = info
        /\ sinceDisconnected' = [sinceDisconnected EXCEPT !.sessionInfo = info]
        /\ UNCHANGED <<isConnected, currentTelemetry, dotCount,
                       tel, si, screen, cars, totalLaps, gapCells>>

\* iracing.on('Telemetry', data => ...)
Telemetry ==
    \E data \in EventTelemetries :
        /\ currentTelemetry' = data
        /\ sinceDisconnected' = [sinceDisconnected EXCEPT !.telemetry = data]
        /\ UNCHANGED <<isConnected, currentSessionInfo, dotCount,
                       tel, si, screen, cars, totalLaps, gapCells>>

\* the waiting test without its !isConnected operand
Waiting_IgnoresConnection ==
    currentTelemetry = NullVal \/ currentSessionInfo = NullVal

\* !isConnected || !currentTelemetry || !currentSessionInfo
Waiting ==
    ~isConnected \/ currentTelemetry = NullVal \/ currentSessionInfo = NullVal

\* a render that drops the stored telemetry snapshot once it has drawn it
render_ConsumesSnapshots ==
    IF Waiting
    THEN /\ dotCount' = (dotCount + 1) % DotCycle
         /\ screen' = "waiting"
         /\ tel' = NullVal
         /\ si' = NullVal
         /\ cars' = <<>>
         /\ totalLaps' = NullVal
         /\ gapCells' = <<>>
         /\ UNCHANGED <<isConnected, currentTelemetry, currentSessionInfo,
                        sinceDisconnected>>
    ELSE /\ tel' = currentTelemetry
         /\ si' = currentSessionInfo
         /\ totalLaps' = TotalLaps(ActiveSessionLaps(currentTelemetry, currentSessionInfo))
         /\ cars' = Pipeline(currentTelemetry, currentSessionInfo)
         /\ screen' = IF Len(cars') = 0 THEN "nocars" ELSE "leaderboard"
         /\ gapCells' = GapColumn(cars')
         /\ currentTelemetry' = NullVal
         /\ UNCHANGED <<isConnected, currentSessionInfo, dotCount, sinceDisconnected>>

\* render(): the waiting screen, or one full pass over the two snapshots
render ==
    IF Waiting
    THEN /\ dotCount' = (dotCount + 1) % DotCycle
         /\ screen' = "waiting"
         /\ tel' = NullVal
         /\ si' = NullVal
         /\ cars' = <<>>
         /\ totalLaps' = NullVal
         /\ gapCells' = <<>>
         /\ UNCHANGED <<isConnected, currentTelemetry, currentSessionInfo,
                        sinceDisconnected>>
    ELSE /\ tel' = currentTelemetry
         /\ si' = currentSessionInfo
         /\ totalLaps' = TotalLaps(ActiveSessionLaps(currentTelemetry, currentSessionInfo))
         /\ cars' = Pipeline(currentTelemetry, currentSessionInfo)
         /\ screen' = IF Len(cars') = 0 THEN "nocars" ELSE "leaderboard"
         /\ gapCells' = GapColumn(cars')
         /\ UNCHANGED <<isConnected, currentTelemetry, currentSessionInfo, dotCount,
                        sinceDisconnected>>

Next == Connected \/ Disconnected \/ SessionInfo \/ Telemetry \/ render

\* the event handlers and the timer, in any interleaving
Spec == Init /\ [][Next]_vars

\* merge inputs: any drivers array over two slots against lap-fraction
\* arrays of every length up to 2
InitMerge ==
    \E n \in 0..MaxRoster :
        \E ds \in [1..n -> MergeDrivers],
           dist \in {<<>>, <<HalfLap>>, <<NullVal, HalfLap>>, <<HalfLap, HalfLap>>} :
            /\ currentSessionInfo =
                   SessionInfoOf([i \in 1..n |->
                                     [ds[i] EXCEPT !.CarClassShortName = RosterLabel(i)]],
                                 OneSession)
            /\ currentTelemetry =
                   TelemetryOf(Column(Len(dist), Num(n)), <<>>, <<>>, dist, <<>>,
                               Num(0), Num(0), {})

\* rank inputs: every mix of positions, lap counts and lap fractions, the
\* drivers array ascending or descending
InitRank ==
    \E desc \in BOOLEAN,
       c \in [1..MaxCars -> [pos : {0, 1, 2}, lap : {NullVal, Num(1)},
                             dist : {Num(5), HalfLap}]] :
        LET n == MaxCars
        IN /\ currentSessionInfo =
                  SessionInfoOf(Roster(n, desc, Column(n, NullVal), Column(n, Str("GTP")),
                                       Column(n, Num(1500))), OneSession)
           /\ currentTelemetry =
                  TelemetryOf([i \in 1..n |-> Num(c[i].pos)], <<>>,
                              [i \in 1..n |-> c[i].lap], [i \in 1..n |-> c[i].dist],
                              <<>>, NullVal, NullVal, {})

\* class inputs: every mix of class labels and positions, the source class
\* positions absent or all 7
InitClass ==
    \E k \in {0, MaxCars},
       c \in [1..MaxCars -> [cls : {NullVal, Str(""), Str("GTP"), Str("__default__")},
                             pos : {0, 1, 2}]] :
        LET n == MaxCars
        IN /\ currentSessionInfo =
                  SessionInfoOf(Roster(n, FALSE, Column(n, Num(0)),
                                       [i \in 1..n |-> c[i].cls], Column(n, Num(0))),
                                OneSession)
           /\ currentTelemetry =
                  TelemetryOf([i \in 1..n |-> Num(c[i].pos)], Column(k, Num(7)),
                              Column(n, Num(1)), [i \in 1..n |-> Num(1000 * i)],
                              <<>>, Num(1), Num(0), {})

\* rating inputs: every mix of ratings and positions
InitRating ==
    \E c \in [1..MaxCars -> [rating : {NullVal, Num(0), Num(1500), Str("1500"),
                                        Num(2100), Num(3000)},
                             pos : {0, 1, 2}]] :
        LET n == MaxCars
        IN /\ currentSessionInfo =
                  SessionInfoOf(Roster(n, FALSE, Column(n, Str("0")), Column(n, Str("GTP")),
                                       [i \in 1..n |-> c[i].rating]), OneSession)
           /\ currentTelemetry =
                  TelemetryOf([i \in 1..n |-> Num(c[i].pos)], <<>>, Column(n, Num(1)),
                              Column(n, HalfLap), <<>>, Num(0), Num(0), {})

\* gap inputs: one car, every gap value against every position
InitGap ==
    \E pos \in {NullVal, Num(0), Num(1), Num(2)}, gap \in GapValues :
        /\ currentSessionInfo =
               SessionInfoOf(<<Driver(Num(0), NullVal, NullVal, NullVal)>>, OneSession)
        /\ currentTelemetry =
               TelemetryOf(<<pos>>, <<>>, <<Num(3)>>, <<HalfLap>>, <<gap>>,
                           Num(0), Num(0), {})

\* header inputs: every Sessions array and session index, every flag bitmask
InitHeader ==
    \E n \in 0..MaxSessions :
        \E laps \in [1..n -> LapLimits],
           num \in {NullVal, Num(0), Num(1), Num(MaxSessions)},
           flags \in SUBSET FlagBits :
            /\ currentSessionInfo =
                   SessionInfoOf(<<Driver(Num(0), NullVal, NullVal, NullVal)>>,
                                 [i \in 1..n |-> [SessionLaps |-> laps[i]]])
            /\ currentTelemetry =
                   TelemetryOf(<<Num(1)>>, <<>>, <<Num(3)>>, <<HalfLap>>, <<>>,
                               Num(0), num, flags)

\* the states in which the connection or a snapshot is missing
InitAbsent ==
    /\ currentSessionInfo \in {NullVal} \cup EventSessionInfos
    /\ currentTelemetry \in {NullVal} \cup EventTelemetries

\* one tick over any pair of delivered snapshots, and over the states in
\* which a snapshot or the connection is missing
InitTick ==
    /\ \/ isConnected = TRUE /\ dotCount = 0 /\
          (InitMerge \/ InitRank \/ InitClass \/ InitRating \/ InitGap \/ InitHeader)
       \/ isConnected \in BOOLEAN /\ dotCount \in 0..(DotCycle - 1) /\ InitAbsent
    /\ tel = NullVal
    /\ si = NullVal
    /\ screen = "none"
    /\ cars = <<>>
    /\ totalLaps = NullVal
    /\ gapCells = <<>>
    /\ sinceDisconnected =
           [connected |-> isConnected, telemetry |-> currentTelemetry,
            sessionInfo |-> currentSessionInfo, afterDisconnect |-> FALSE]

SpecTick == InitTick /\ [][render]_vars

-----------------------------------------------------------------------------
(* Properties *)

\* the last tick ran the pipeline (it drew the leaderboard or "No active cars")
Ran == screen \in {"nocars", "leaderboard"}

CarIndices == 1..Len(cars)
Slots == {cars[k].idx : k \in CarIndices}

\* the pace-car indicator counts as set: numeric 1, string "1" or boolean true
IsPaceCar(v) == v \in {Num(1), Str("1"), Bool(TRUE)}

\* roster entry i is not the pace car and has a lap fraction at its slot id
Eligible(i) ==
    LET d == si.Drivers[i]
    IN /\ d.CarIdx # NullVal
       /\ ~IsPaceCar(d.CarIsPaceCar)
       /\ At(tel.CarIdxLapDistPct, d.CarIdx.n) # NullVal

\* roster entry i is the last entry of the roster for its slot id
LastForSlot(i) ==
    \A j \in (i + 1)..Len(si.Drivers) : si.Drivers[j].CarIdx # si.Drivers[i].CarIdx

\* C1 as stated: the records of a tick are exactly the roster entries that
\* are not the pace car and have a non-null lap fraction, for every roster.
C1_RecordsAreEligibleEntries ==
    Ran => Slots = {si.Drivers[i].CarIdx.n :
                      i \in {j \in 1..Len(si.Drivers) : Eligible(j)}}

\* C1 amended: the records of a tick are exactly the roster entries that are
\* the last entry for their slot id, are not the pace car and have a non-null
\* lap fraction at that slot id: one record for each, and no other record.
C1_RecordsAreLastEligibleEntries ==
    Ran => LET last == {j \in 1..Len(si.Drivers) : LastForSlot(j) /\ Eligible(j)}
           IN /\ Slots = {si.Drivers[i].CarIdx.n : i \in last}
              /\ Len(cars) = Cardinality(last)

\* a tick over a roster that repeats a slot id, holds a string-encoded pace
\* car and an entry without telemetry, and still produced a record
C1_Witness ==
    /\ screen = "leaderboard"
    /\ \E i, j \in 1..Len(si.Drivers) :
          i < j /\ Eligible(i) /\ si.Drivers[j].CarIdx = si.Drivers[i].CarIdx
    /\ \E i \in 1..Len(si.Drivers) : si.Drivers[i].CarIsPaceCar = Str("1")
    /\ \E i \in 1..Len(si.Drivers) :
          /\ si.Drivers[i].CarIdx # NullVal
          /\ At(tel.CarIdxLapDistPct, si.Drivers[i].CarIdx.n) = NullVal

\* C2: in the ranked output, positions are non-decreasing among the cars
\* with a positive position, and no car without a positive position comes
\* before a car with one.
C2_RankOrder ==
    Ran => \A i, j \in CarIndices :
              i < j => /\ (cars[i].pos > 0 /\ cars[j].pos > 0 => cars[i].pos <= cars[j].pos)
                       /\ ~(cars[i].pos <= 0 /\ cars[j].pos > 0)

\* a ranked output the sort had to reorder, holding positioned and
\* unpositioned cars
C2_Witness ==
    /\ screen = "leaderboard"
    /\ Len(cars) >= 3
    /\ cars[1].pos > 0 /\ cars[2].pos > cars[1].pos /\ cars[Len(cars)].pos <= 0
    /\ cars[1].idx > cars[2].idx

\* the cars of class label L, in ranked order
OfClass(L) == SelectSeq(cars, LAMBDA c : c.carClass = L)

\* C3 as stated: for every class label, the empty label being a class of its
\* own, the class positions of that class's cars in ranked order are 1..k.
C3_ClassPositionsContiguous ==
    Ran => \A L \in {cars[k].carClass : k \in CarIndices} :
              \A m \in 1..Len(OfClass(L)) : OfClass(L)[m].classPos = m

\* the classified cars of the output: positive position and positive rating
Classified == {k \in CarIndices : cars[k].pos > 0 /\ cars[k].iRating > 0}

\* C4: a car's rating delta is a number exactly when at least two cars are
\* classified and the car is one of them, and is null otherwise; the deltas
\* are those of the classified cars alone, the other cars removed.
C4_DeltaIffClassified ==
    Ran => /\ \A k \in CarIndices :
                 IF Cardinality(Classified) >= 2 /\ k \in Classified
                 THEN cars[k].iRatingDelta.t = "num"
                 ELSE cars[k].iRatingDelta = NullVal
           /\ LET only == SelectSeq(cars, LAMBDA c : c.pos > 0 /\ c.iRating > 0)
                  alone == [m \in 1..Len(only) |->
                               [only[m] EXCEPT !.iRatingDelta = NullVal]]
              IN SelectSeq(cars, LAMBDA c : c.pos > 0 /\ c.iRating > 0)
                     = calcIRatingDeltas(alone)

\* two classified cars next to an unrated car on a positive position
C4_Witness ==
    /\ screen = "leaderboard"
    /\ Cardinality(Classified) = 2
    /\ \E k \in CarIndices : cars[k].pos > 0 /\ cars[k].iRating = 0
    /\ \E k \in Classified : cars[k].iRatingDelta.t = "num" /\ cars[k].iRatingDelta.n # 0

\* exactly two cars are classified and their ratings are equal
TwoEqualRated ==
    /\ Ran
    /\ Cardinality(Classified) = 2
    /\ \A a, b \in Classified : cars[a].iRating = cars[b].iRating

\* C5 as stated: two classified cars of equal rating get deltas equal in
\* magnitude and opposite in sign, for every pair of positive positions.
C5_EqualRatingsOppositeDeltas ==
    TwoEqualRated =>
        \A a, b \in Classified :
            a # b => cars[a].iRatingDelta.n = -cars[b].iRatingDelta.n

\* C5 amended: two classified cars of equal rating on different positions
\* get deltas equal in magnitude and opposite in sign (+50 for the car ahead,
\* -50 for the other); on the same position both get -50.
C5_EqualRatingsByPosition ==
    TwoEqualRated =>
        \A a, b \in Classified :
            a # b =>
                IF cars[a].pos # cars[b].pos
                THEN /\ cars[a].iRatingDelta.n = -cars[b].iRatingDelta.n
                     /\ cars[a].iRatingDelta.n = (IF cars[a].pos < cars[b].pos THEN 50 ELSE -50)
                ELSE cars[a].iRatingDelta.n = -50 /\ cars[b].iRatingDelta.n = -50

\* two classified cars of equal rating on positions 1 and 2
C5_Witness ==
    /\ TwoEqualRated
    /\ \E a, b \in Classified :
          cars[a].pos = 1 /\ cars[b].pos = 2 /\ cars[a].iRatingDelta = Num(50)

\* a step that redraws: only render assigns the counter and the outputs
Redraws ==
    <<dotCount, tel, si, screen, cars, totalLaps, gapCells>>'
        # <<dotCount, tel, si, screen, cars, totalLaps, gapCells>>

\* C6: every tick either surfaces the waiting state and runs no stage, when
\* the source is not connected or a snapshot is absent, or, connected with
\* both snapshots present, runs the whole pass over the two current
\* snapshots and does not surface the waiting state.
C6_TickWaitsOrRunsFullPass ==
    [][Redraws =>
          IF ~isConnected \/ currentTelemetry = NullVal \/ currentSessionInfo = NullVal
          THEN /\ screen' = "waiting"
               /\ cars' = <<>> /\ gapCells' = <<>> /\ totalLaps' = NullVal
               /\ tel' = NullVal /\ si' = NullVal
          ELSE /\ screen' \in {"nocars", "leaderboard"}
               /\ tel' = currentTelemetry /\ si' = currentSessionInfo
               /\ cars' = Pipeline(currentTelemetry, currentSessionInfo)
               /\ totalLaps' # NullVal
               /\ Len(gapCells') = Len(cars')]_vars

\* a full pass drawn after the waiting screen had been drawn
C6_Witness ==
    screen = "leaderboard" /\ dotCount > 0 /\ isConnected /\ Len(cars) = 2

\* the condition the priority order picks from the active flag bits
ResolveFlag(bits) ==
    IF "finish" \in bits THEN "finish"
    ELSE IF "red" \in bits THEN "stopped"
    ELSE IF "caution" \in bits THEN "caution"
    ELSE IF "oneLapToGreen" \in bits THEN "oneLapToGreen"
    ELSE IF "white" \in bits THEN "finalLap"
    ELSE IF "green" \in bits THEN "green"
    ELSE "none"

\* C7 as stated: a tick surfaces the highest-priority active flag condition
\* of the bitmask; red together with green resolves to stopped.
C7_HighestPriorityFlagShown ==
    Ran => FlagBanner(tel) = ResolveFlag(tel.SessionFlags)

\* C8 as stated: the lap-limit value shown is the unlimited marker when the
\* active session's limit is 32767 or "32767", the literal limit when it is
\* 25, and never the sentinel.
C8_LapLimitDisplay ==
    Ran => LET limit == ActiveSessionLaps(tel, si)
           IN /\ limit \in {Num(32767), Str("32767")} => totalLaps = Unlimited
              /\ limit = Num(25) => totalLaps = Num(25)
              /\ totalLaps \notin {Num(32767), Str("32767")}

\* the gap a time cell shows, in milliseconds
ShownMillis(cell) == cell.min * 60000 + cell.ms

\* cell shows g (in units) as a time, to the millisecond
ShowsTime(cell, g) ==
    /\ cell.kind \in {"seconds", "minutes"}
    /\ ShownMillis(cell) * 10 - g \in -5..5

\* cell shows "lapped by round(g / 3600)"
ShowsLapped(cell, g) ==
    /\ cell.kind = "lapped"
    /\ (2 * cell.laps - 1) * 1800 * Unit <= g
    /\ g < (2 * cell.laps + 1) * 1800 * Unit

\* C9 as stated: position 1 shows the leader marker whatever the gap; any
\* other car with a gap value shows "lapped by round(g / 3600)" from 3600
\* seconds on and the literal time below 3600 seconds.
C9_GapCells ==
    screen = "leaderboard" =>
        \A k \in CarIndices :
            IF cars[k].pos = 1 THEN gapCells[k].kind = "leader"
            ELSE cars[k].gap # NullVal =>
                    IF cars[k].gap.n >= 3600 * Unit
                    THEN ShowsLapped(gapCells[k], cars[k].gap.n)
                    ELSE ShowsTime(gapCells[k], cars[k].gap.n)

\* C9 amended: as stated for gap values of 0 and more; a negative gap value
\* shows the no-gap dashes and not a time.
C9_GapCellsNonNegative ==
    screen = "leaderboard" =>
        \A k \in CarIndices :
            IF cars[k].pos = 1 THEN gapCells[k].kind = "leader"
            ELSE cars[k].gap # NullVal =>
                    IF cars[k].gap.n >= 3600 * Unit
                    THEN ShowsLapped(gapCells[k], cars[k].gap.n)
                    ELSE IF cars[k].gap.n >= 0
                    THEN ShowsTime(gapCells[k], cars[k].gap.n)
                    ELSE gapCells[k].kind = "dashes"

\* a car on position 2 with a gap of 3650 seconds, shown as lapped by 1
C9_Witness ==
    /\ screen = "leaderboard"
    /\ \E k \in CarIndices :
          /\ cars[k].pos = 2 /\ cars[k].gap = Num(36500000)
          /\ gapCells[k].kind = "lapped" /\ gapCells[k].laps = 1

\* C10: among the cars without a positive position, lapsCompleted +
\* lapFraction is non-increasing along the ranked output.
C10_ProgressDescending ==
    Ran => \A i, j \in CarIndices :
              (i < j /\ cars[i].pos <= 0 /\ cars[j].pos <= 0)
                  => cars[i].laps * Unit + cars[i].distPct
                         >= cars[j].laps * Unit + cars[j].distPct

\* three unpositioned cars the sort had to reorder, one without a lap count
C10_Witness ==
    /\ screen = "leaderboard"
    /\ Len(cars) >= 3
    /\ \A k \in CarIndices : cars[k].pos <= 0
    /\ cars[1].idx > cars[2].idx
    /\ cars[1].laps * Unit + cars[1].distPct > cars[2].laps * Unit + cars[2].distPct
    /\ \E k \in CarIndices : At(tel.CarIdxLap, cars[k].idx) = NullVal

\* the place in the roster of the entry that supplied the record of slot idx
RosterIndex(idx) ==
    CHOOSE i \in 1..Len(si.Drivers) :
        /\ si.Drivers[i].CarIdx = Num(idx)
        /\ \A j \in (i + 1)..Len(si.Drivers) : si.Drivers[j].CarIdx # Num(idx)

\* a and b are equal on both sort keys
TiedOnKeys(a, b) ==
    \/ a.pos > 0 /\ b.pos = a.pos
    \/ /\ a.pos <= 0 /\ b.pos <= 0
       /\ a.laps * Unit + a.distPct = b.laps * Unit + b.distPct

\* C11 as stated: two cars equal on both sort keys come out in the order of
\* their roster entries, for every order the roster lists its slot ids in.
C11_TiesKeepRosterOrder ==
    Ran => \A i, j \in CarIndices :
              (i < j /\ TiedOnKeys(cars[i], cars[j]))
                  => RosterIndex(cars[i].idx) < RosterIndex(cars[j].idx)

\* C11 amended: two cars equal on both sort keys come out in ascending order
\* of slot id, whatever order the roster lists its slot ids in.
C11_TiesKeepSlotOrder ==
    Ran => \A i, j \in CarIndices :
              (i < j /\ TiedOnKeys(cars[i], cars[j])) => cars[i].idx < cars[j].idx

\* a roster listing its slots in descending order, two of whose cars tie on
\* a positive position behind the leader
C11_Witness ==
    /\ screen = "leaderboard"
    /\ Len(cars) >= 3
    /\ cars[1].pos = 1
    /\ cars[2].pos = 2 /\ TiedOnKeys(cars[2], cars[3])
    /\ RosterIndex(cars[2].idx) > RosterIndex(cars[3].idx)

\* C12: a tick, waiting or full pass, leaves the connected flag and both
\* stored snapshots, contents included, as they were; the records it holds
\* afterwards are built from the stored snapshots alone (none when waiting);
\* so the stored state changes only in the steps of the four handlers.
C12_TickLeavesInputs ==
    [][Redraws =>
          /\ isConnected' = isConnected
          /\ currentTelemetry' = currentTelemetry
          /\ currentSessionInfo' = currentSessionInfo
          /\ IF screen' = "waiting" THEN cars' = <<>>
             ELSE /\ cars' = Pipeline(currentTelemetry, currentSessionInfo)
                  /\ \A k \in 1..Len(cars') :
                        /\ Num(cars'[k].distPct)
                               = At(currentTelemetry.CarIdxLapDistPct, cars'[k].idx)
                        /\ Num(cars'[k].pos)
                               = Coalesce(At(currentTelemetry.CarIdxPosition, cars'[k].idx),
                                          Num(0))]_vars

\* after a full pass that followed a waiting screen, the stored snapshots
\* are still the ones the tick read
C12_Witness ==
    /\ screen = "leaderboard" /\ Len(cars) = 2
    /\ isConnected
    /\ currentTelemetry = tel /\ currentSessionInfo = si
    /\ dotCount > 0

\* C13: a tick that runs the pipeline reads exactly the telemetry snapshot
\* and the session snapshot delivered since the most recent Disconnected
\* event, and does so only once a Connected, a Telemetry and a SessionInfo
\* event have all occurred since then; until then every tick shows waiting.
C13_FreshAfterDisconnected ==
    [][Redraws =>
          IF /\ sinceDisconnected.connected
             /\ sinceDisconnected.telemetry # NullVal
             /\ sinceDisconnected.sessionInfo # NullVal
          THEN /\ screen' # "waiting"
               /\ tel' = sinceDisconnected.telemetry
               /\ si' = sinceDisconnected.sessionInfo
          ELSE screen' = "waiting" /\ cars' = <<>>]_vars

\* a full pass drawn after a Disconnected event and the three events that
\* followed it
C13_Witness ==
    /\ sinceDisconnected.afterDisconnect
    /\ screen = "leaderboard" /\ Len(cars) = 2
    /\ tel = sinceDisconnected.telemetry /\ si = sinceDisconnected.sessionInfo

\* C14: the records of one tick have pairwise distinct slot ids, also when
\* the roster repeats a slot id; the last roster entry for a slot id supplies
\* the record's class and rating; at most one record is the player's.
C14_DistinctSlots ==
    Ran => /\ \A i, j \in CarIndices : i # j => cars[i].idx # cars[j].idx
           /\ \A k \in CarIndices :
                 LET d == si.Drivers[RosterIndex(cars[k].idx)]
                 IN /\ cars[k].carClass = Coalesce(d.CarClassShortName, Str("")).s
                    /\ cars[k].iRating = ParseInt(Coalesce(d.IRating, Num(0)))
                    /\ cars[k].isPlayer = (tel.PlayerCarIdx = Num(cars[k].idx))
           /\ Cardinality({k \in CarIndices : cars[k].isPlayer}) <= 1

\* a roster with two eligible entries for the player's slot id and an entry
\* for another slot: two records, one of them the player's
C14_Witness ==
    /\ screen = "leaderboard"
    /\ Len(cars) = 2
    /\ \E k \in CarIndices : cars[k].isPlayer
    /\ \E i, j \in 1..Len(si.Drivers) :
          /\ i < j /\ Eligible(i) /\ Eligible(j)
          /\ si.Drivers[i].CarIdx = si.Drivers[j].CarIdx
          /\ si.Drivers[i].CarIdx = tel.PlayerCarIdx

====
